---- MODULE Spec2Model ----
(***************************************************************************)
(* Model of the Wiser controller client (src/unnamed/part_004): the named  *)
(* monitors (monitor / removeMonitor), the full fetch (getFull) they share *)
(* and the closure state they read and write.                              *)
(*                                                                         *)
(* A JavaScript callback runs to completion, so each action below is one   *)
(* whole call or one whole callback.  A fetch is issued by the client and  *)
(* later its response is delivered, which runs the continuation of getFull *)
(* and then the .then/.catch handlers of the caller; the response holds    *)
(* the controller's data of some moment in between, or an error.           *)
(***************************************************************************)
EXTENDS Integers, Sequences, FiniteSets, TLC

\* ---------------------------------------------------------------- bounds
\* Number of monitor() calls made in one behaviour.
MaxMonitors == 2
\* Number of fetches (initial runs and ticks together) issued in one behaviour
\* of Spec, and in one behaviour of SpecTraced.
MaxFetches == 3
MaxFetchesTraced == 4
\* Number of times the controller's room changes its Mode in one behaviour.
MaxChanges == 1

\* ------------------------------------------------------------ the inputs
\* Monitor references the caller passes: the default one and a name that is
\* also a property every JavaScript object inherits from Object.prototype.
Refs == {"wiser", "toString"}

\* The references of a traced run: two ordinary names.
RefsTraced == {"wiser", "test002"}

\* Property names an object literal {} inherits (a part of them).
ObjectPrototypeKeys == {"constructor", "toString", "valueOf", "hasOwnProperty"}

\* What wiserMonitorRefs[name] evaluates to when name is no own property:
\* undefined, or the function inherited from Object.prototype.  A timer handle
\* is the number of the monitor() call that made it (1, 2, ...).
Undefined == 0
InheritedFn == -1

\* The registry as the closure creates it: {}.
NoRefs == [r \in {} |-> Undefined]

VARIABLES
    ctrl,              \* the controller: how often its room changed Mode so far
    nfetch,            \* fetches issued so far (the next fetch gets nfetch + 1)
    inflight,          \* fetches issued and not yet delivered
    mref,              \* mref[m]: the ref of the m-th monitor() call (its closure)
    timers,            \* the setInterval timers that are active (by monitor call)
    wiserMonitorRefs,  \* the registry: ref -> timer handle (own properties)
    prev,              \* closure variable prev
    saved,             \* closure variable saved
    roomMap,           \* closure variable roomMap
    out,               \* what the last step did, in order: effects and events
    last,              \* which operation the last step was
    removedWhile,      \* removedWhile[m]: what m was when removeMonitor(mref[m]) ran
    run,               \* the run: its refs, its budget of fetches, is it traced
    stored,            \* stored[m]: the snapshot monitor call m itself stored last
    fails,             \* fails[m]: how many ticks of m failed since its last success
    settings,          \* the closure's settings
    call,              \* the setRoomMode call made last: arguments, position, result
    patches,           \* the writes (axios.patch) that call issued, in order
    axiosConfig,       \* the closure's axiosConfig: baseURL and the SECRET header
    applied,           \* the writes of patches the controller has applied, in order
    prevAt             \* traced runs: the fetch whose response prev was taken from

\* The variables of setRoomMode and the configuration.
roomModeVars == <<settings, axiosConfig, call, patches, applied>>

vars == <<ctrl, nfetch, inflight, mref, timers, wiserMonitorRefs, prev, saved,
          roomMap, out, last, removedWhile, run, stored, fails, settings, call, patches,
          axiosConfig, applied, prevAt>>

\* ------------------------------------------------------- controller data
\* The Mode of the controller's room after it changed ver times.
ModeOf(ver) == IF ver % 2 = 0 THEN "Auto" ELSE "Manual"

\* The radio reception a device reports at clock t: it goes up and down all
\* the time.
ReceptionAt(t) == [Rssi |-> -60 - (t % 2)]

\* The full data the controller serves (servicePaths.full) when its room has
\* changed ver times and its clock reads t.  System is an object, Room and
\* Device are arrays of entities.
Snapshot(ver, t) ==
    [System |-> [UnixTime |-> t, LocalDateAndTime |-> t, BrandName |-> "WiserHeat"],
     Room   |-> << [id |-> 8, Name |-> "Office", Mode |-> ModeOf(ver),
                    ScheduledSetPoint |-> 180, SmartValveIds |-> <<3>>] >>,
     Device |-> << [id |-> 3, ProductType |-> "iTRV",
                    ReceptionOfDevice |-> ReceptionAt(t)] >>]

\* The full data of a controller with several rooms, two of which share a
\* Name and two an id, when it has changed ver times: at every odd change
\* its first room is taken off, at every even one put back.
House(ver, t) ==
    LET office == [id |-> 8, Name |-> "Office", Mode |-> "Auto", SmartValveIds |-> <<3>>]
        study  == [id |-> 9, Name |-> "Office", Mode |-> "Auto", SmartValveIds |-> <<4>>]
        den    == [id |-> 8, Name |-> "Den", Mode |-> "Manual", SmartValveIds |-> <<>>]
    IN  [System |-> [UnixTime |-> t, LocalDateAndTime |-> t, BrandName |-> "WiserHeat"],
         Room   |-> IF ver % 2 = 0 THEN <<office, study, den>> ELSE <<study, den>>,
         Device |-> << [id |-> 3, ProductType |-> "iTRV",
                        ReceptionOfDevice |-> ReceptionAt(t)] >>]

\* What getFull resolves to when the request fails: {'error': error}.
ErrorResult == [error |-> "transport"]

\* The entity types that are arrays, in the key order of the served object.
ArrayTypes == <<"Room", "Device">>

\* Fields removed from every delta before it is reported.
NoiseFields == {"ReceptionOfController", "ReceptionOfDevice", "PendingZigbeeMessageMask"}

\* ------------------------------------------------------------ pure parts
\* delete res.System.UnixTime; delete res.System.LocalDateAndTime
StripVolatile(res) ==
    [res EXCEPT !.System =
        [k \in DOMAIN res.System \ {"UnixTime", "LocalDateAndTime"} |-> res.System[k]]]

\* Does `delete res.System.UnixTime` throw?  It does when res has no System
\* (res.System is undefined), as for the {'error': ...} object.
StripThrows(res) == "System" \notin DOMAIN res

\* getMonitorRef: wiserMonitorRefs[refName].  The registry is an object
\* literal, so a name it does not own is looked up in Object.prototype.
getMonitorRef(refs, refName) ==
    IF refName \in DOMAIN refs THEN refs[refName]
    ELSE IF refName \in ObjectPrototypeKeys THEN InheritedFn
    ELSE Undefined

\* doRoomMap: device id -> room, for the valves, the room stat and the plugs
\* of every room; a later room (and, within a room, a later kind) overwrites.
RoomDevices(room) ==
    (IF "SmartValveIds" \in DOMAIN room
        THEN {room.SmartValveIds[i] : i \in 1..Len(room.SmartValveIds)} ELSE {})
    \cup (IF "RoomStatId" \in DOMAIN room /\ room.RoomStatId # 0
        THEN {room.RoomStatId} ELSE {})
    \cup (IF "SmartPlugIds" \in DOMAIN room
        THEN {room.SmartPlugIds[i] : i \in 1..Len(room.SmartPlugIds)} ELSE {})

RoomDeviceKind(room, d) ==
    IF "SmartPlugIds" \in DOMAIN room
          /\ d \in {room.SmartPlugIds[i] : i \in 1..Len(room.SmartPlugIds)}
        THEN "SmartPlug"
    ELSE IF "RoomStatId" \in DOMAIN room /\ room.RoomStatId = d THEN "RoomStat"
    ELSE "SmartValve"

doRoomMap(sv) ==
    LET rooms == sv.Room
        ids == UNION {RoomDevices(rooms[i]) : i \in 1..Len(rooms)}
        owner(d) == CHOOSE i \in 1..Len(rooms) :
                        /\ d \in RoomDevices(rooms[i])
                        /\ \A j \in 1..Len(rooms) : d \in RoomDevices(rooms[j]) => j <= i
    IN  [d \in ids |-> [roomId |-> rooms[owner(d)].id,
                        roomName |-> rooms[owner(d)].Name,
                        type |-> RoomDeviceKind(rooms[owner(d)], d)]]

\* updatedDiff as it would be if it reported every field both entities have.
EntityDiff_AllFields(l, r) ==
    [k \in DOMAIN r \cap DOMAIN l |-> r[k]]

\* updatedDiff(l, r) for two entities: the fields both have whose values
\* differ, with the value of r.
EntityDiff(l, r) ==
    LET ks == {k \in DOMAIN r \cap DOMAIN l : l[k] # r[k]}
    IN  [k \in ks |-> r[k]]

\* The delta of entity i as it would be without the three deletes.
Delta_KeepNoise(pv, res, type, i) ==
    EntityDiff(pv[type][i], res[type][i])

\* The delta of entity i of a type after the noise fields are deleted from it.
Delta(pv, res, type, i) ==
    LET d == EntityDiff(pv[type][i], res[type][i])
    IN  [k \in DOMAIN d \ NoiseFields |-> d[k]]

\* Is there an entry dataDiff[type][i]?  Only for an index both arrays have
\* and an entity whose updatedDiff is not empty.
HasDiff(pv, res, type, i) ==
    /\ type \in DOMAIN pv
    /\ type \in DOMAIN res
    /\ i <= Len(pv[type])
    /\ i <= Len(res[type])
    /\ DOMAIN EntityDiff(pv[type][i], res[type][i]) # {}

\* The wiserChange event as it would be if prevData were read from res.
ChangeEvent_PrevFromRes(ref, pv, res, rmap, type, i) ==
    LET data == Delta(pv, res, type, i)
        base == [ev |-> "wiserChange", monitorRef |-> ref, type |-> type,
                 idx |-> i - 1, id |-> res[type][i].id, changes |-> data,
                 prev |-> [k \in DOMAIN data |-> res[type][i][k]]]
    IN  IF type = "Room" THEN base @@ [room |-> res[type][i].Name]
        ELSE IF res[type][i].id \in DOMAIN rmap
            THEN base @@ [room |-> rmap[res[type][i].id].roomName]
        ELSE base

\* The wiserChange event of a delta that is not empty.
ChangeEvent(ref, pv, res, rmap, type, i) ==
    LET data == Delta(pv, res, type, i)
        base == [ev |-> "wiserChange", monitorRef |-> ref, type |-> type,
                 idx |-> i - 1, id |-> res[type][i].id, changes |-> data,
                 prev |-> [k \in DOMAIN data |-> pv[type][i][k]]]
    IN  IF type = "Room" THEN base @@ [room |-> res[type][i].Name]
        ELSE IF res[type][i].id \in DOMAIN rmap
            THEN base @@ [room |-> rmap[res[type][i].id].roomName]
        ELSE base

\* The events of one type, index by index from i upwards.
RECURSIVE TypeChanges(_, _, _, _, _, _)
TypeChanges(ref, pv, res, rmap, type, i) ==
    IF type \notin DOMAIN res \/ i > Len(res[type]) THEN <<>>
    ELSE (IF HasDiff(pv, res, type, i) /\ DOMAIN Delta(pv, res, type, i) # {}
            THEN <<ChangeEvent(ref, pv, res, rmap, type, i)>> ELSE <<>>)
         \o TypeChanges(ref, pv, res, rmap, type, i + 1)

\* Object.keys(dataDiff).forEach(...): the events of a tick, type by type.
RECURSIVE Changes(_, _, _, _, _)
Changes(ref, pv, res, rmap, t) ==
    IF t > Len(ArrayTypes) THEN <<>>
    ELSE TypeChanges(ref, pv, res, rmap, ArrayTypes[t], 1)
         \o Changes(ref, pv, res, rmap, t + 1)


\* ------------------------------------------------- temperatures and values
\* The program's constants (degrees C, minutes).
TEMP_MINIMUM == 5
TEMP_MAXIMUM == 30
TEMP_OFF == -20
BOOST_DEFAULT_TEMP == 20
BOOST_DEFAULT_DURATION == 30
MONITOR_LOOP_INTERVAL == 60

\* A temperature in degrees C is written as its number of tenths (19.8 is
\* 198): the temperatures used have one decimal at most, and for those the
\* program's products degC*10 are exact.
Tenths == 10
DegC(whole) == whole * Tenths

\* toWiserTemp: degC*10.
toWiserTemp(degC) == (degC * 10) \div Tenths

\* JavaScript values of the arguments roomIdOrName and mode: a string, a
\* number (written by its decimal digits), null, undefined.
Str(s) == [t |-> "string", v |-> s]
Num(s) == [t |-> "number", v |-> s]
JsNull == [t |-> "null", v |-> ""]
JsUndefined == [t |-> "undefined", v |-> ""]

\* Number(x) for a number or a string: the digits the model uses, and NaN for
\* any other string.
Numerals == ("8" :> 8) @@ ("999" :> 999) @@ ("0" :> 0) @@ ("11" :> 11)
IsNaN(x) == x.v \notin DOMAIN Numerals
Number(x) == Numerals[x.v]

\* mode.toLowerCase() for the strings the model uses.
UpperCased == ("Manual" :> "manual") @@ ("AUTO" :> "auto")
toLowerCase(str) == IF str \in DOMAIN UpperCased THEN UpperCased[str] ELSE str

\* ---------------------------------------------------------------- events
\* The value of a closure variable that was never assigned.
NoValue == [undefined |-> TRUE]

\* wiserPing, as the initial run and as a tick emit it (`updated` left out).
Ping(ref, initialRun) ==
    IF initialRun THEN [ev |-> "wiserPing", monitorRef |-> ref, initialRun |-> TRUE]
    ELSE [ev |-> "wiserPing", monitorRef |-> ref]

\* wiserError of a tick (with monitorRef) and of the initial run (without).
TickError(ref) == [ev |-> "wiserError", monitorRef |-> ref, error |-> "TypeError"]
InitialError(ref) == [ev |-> "wiserError", error |-> "TypeError"]

\* Assignments and timer calls are written into `out` beside the events, so
\* that the order of a callback's effects can be read off it.
Effect(name) == [ev |-> name]

\* ---------------------------------------------------- calls and callbacks
\* getFull as it would be if it kept the device-to-room map it had once one
\* was built.
getFull_KeepsRoomMap(resp, sv, rmap) ==
    IF resp = ErrorResult
        THEN [saved |-> sv, roomMap |-> rmap, out |-> <<>>, value |-> ErrorResult]
        ELSE [saved |-> resp, roomMap |-> IF rmap = <<>> THEN doRoomMap(resp) ELSE rmap,
              out |-> <<[ev |-> "wiserFullUpdate"]>>, value |-> resp]

\* The continuation of getFull after `await axios.get`: on an error nothing
\* changes and {'error': error} is returned; otherwise saved and roomMap are
\* replaced, wiserFullUpdate is emitted and saved is returned.
getFull(resp, sv, rmap) ==
    IF resp = ErrorResult
        THEN [saved |-> sv, roomMap |-> rmap, out |-> <<>>, value |-> ErrorResult]
        ELSE [saved |-> resp, roomMap |-> doRoomMap(resp),
              out |-> <<[ev |-> "wiserFullUpdate"]>>, value |-> resp]

\* removeMonitor as it would be without its clearInterval(existRef).
removeMonitor_NoClearInterval(ref, refs, tms) ==
    LET existRef == getMonitorRef(refs, ref)
    IN  IF existRef # Undefined
            THEN [refs |-> IF ref \in DOMAIN refs
                                THEN [r \in DOMAIN refs \ {ref} |-> refs[r]] ELSE refs,
                  timers |-> tms,
                  out |-> <<Effect("delete wiserMonitorRefs[ref]"),
                            [ev |-> "wiserMonitorRemoved", monitorRef |-> ref]>>]
            ELSE [refs |-> refs, timers |-> tms, out |-> <<>>]

\* removeMonitor(ref) on the registry refs and the active timers tms.
removeMonitor(ref, refs, tms) ==
    LET existRef == getMonitorRef(refs, ref)
    IN  IF existRef # Undefined
            THEN [refs |-> IF ref \in DOMAIN refs
                                THEN [r \in DOMAIN refs \ {ref} |-> refs[r]] ELSE refs,
                  timers |-> tms \ {existRef},
                  out |-> <<Effect("clearInterval"), Effect("delete wiserMonitorRefs[ref]"),
                            [ev |-> "wiserMonitorRemoved", monitorRef |-> ref]>>]
            ELSE [refs |-> refs, timers |-> tms, out |-> <<>>]

\* The listener the module installs on its own emitter for wiserMonitorRef:
\* wiserMonitorRefs[ref.monitorRef] = ref.timeoutRef
onWiserMonitorRef(refs, ref, timeoutRef) ==
    [r \in DOMAIN refs \cup {ref} |-> IF r = ref THEN timeoutRef ELSE refs[r]]

\* initialRun as it would be without `prev = res`.
initialRun_NoSeed(ref, m, res, pv, sv, tms, refs) ==
    IF StripThrows(res)
        THEN [prev |-> pv, saved |-> sv, timers |-> tms, refs |-> refs, ok |-> FALSE,
              out |-> <<Ping(ref, TRUE), InitialError(ref)>>]
        ELSE [prev |-> pv, saved |-> StripVolatile(res),
              timers |-> tms \cup {m}, refs |-> onWiserMonitorRef(refs, ref, m),
              ok |-> TRUE,
              out |-> <<Ping(ref, TRUE), Effect("setInterval"),
                        Effect("wiserMonitorRefs[ref] = timeoutRef"),
                        [ev |-> "wiserMonitorRef", monitorRef |-> ref, timeoutRef |-> m]>>]

\* initialRun as it would be with the ping emitted at the end of the handler.
initialRun_PingLast(ref, m, res, pv, sv, tms, refs) ==
    IF StripThrows(res)
        THEN [prev |-> pv, saved |-> sv, timers |-> tms, refs |-> refs, ok |-> FALSE,
              out |-> <<InitialError(ref)>>]
        ELSE [prev |-> StripVolatile(res), saved |-> StripVolatile(res),
              timers |-> tms \cup {m}, refs |-> onWiserMonitorRef(refs, ref, m),
              ok |-> TRUE,
              out |-> <<Effect("prev = res"), Effect("setInterval"),
                        Effect("wiserMonitorRefs[ref] = timeoutRef"),
                        [ev |-> "wiserMonitorRef", monitorRef |-> ref, timeoutRef |-> m],
                        Ping(ref, TRUE)>>]

\* The .then/.catch of monitor's initial getFull, for the monitor() call number
\* m with reference ref, on the value res getFull resolved to.
initialRun(ref, m, res, pv, sv, tms, refs) ==
    IF StripThrows(res)
        THEN [prev |-> pv, saved |-> sv, timers |-> tms, refs |-> refs, ok |-> FALSE,
              out |-> <<Ping(ref, TRUE), InitialError(ref)>>]
        ELSE [prev |-> StripVolatile(res), saved |-> StripVolatile(res),
              timers |-> tms \cup {m}, refs |-> onWiserMonitorRef(refs, ref, m),
              ok |-> TRUE,
              out |-> <<Ping(ref, TRUE), Effect("prev = res"), Effect("setInterval"),
                        Effect("wiserMonitorRefs[ref] = timeoutRef"),
                        [ev |-> "wiserMonitorRef", monitorRef |-> ref, timeoutRef |-> m]>>]

\* tickRun as it would be with `prev = res` done only when a change was
\* reported.
tickRun_StoreIfChanged(ref, res, pv, sv, rmap) ==
    IF StripThrows(res)
        THEN [prev |-> pv, saved |-> sv, ok |-> FALSE,
              out |-> <<Ping(ref, FALSE), TickError(ref)>>]
        ELSE LET chg == Changes(ref, pv, StripVolatile(res), rmap, 1)
             IN  [prev |-> IF chg = <<>> THEN pv ELSE StripVolatile(res),
                  saved |-> StripVolatile(res), ok |-> TRUE,
                  out |-> <<Ping(ref, FALSE)>> \o chg
                          \o (IF chg = <<>> THEN <<>> ELSE <<Effect("prev = res")>>)]

\* tickRun as it would be with `prev = res` placed before the two deletes.
tickRun_StoreFirst(ref, res, pv, sv, rmap) ==
    IF StripThrows(res)
        THEN [prev |-> res, saved |-> sv, ok |-> FALSE,
              out |-> <<Ping(ref, FALSE), Effect("prev = res"), TickError(ref)>>]
        ELSE [prev |-> StripVolatile(res), saved |-> StripVolatile(res), ok |-> TRUE,
              out |-> <<Ping(ref, FALSE), Effect("prev = res")>>
                      \o Changes(ref, pv, StripVolatile(res), rmap, 1)]

\* The .then/.catch of a tick's getFull for the monitor with reference ref.
tickRun(ref, res, pv, sv, rmap) ==
    IF StripThrows(res)
        THEN [prev |-> pv, saved |-> sv, ok |-> FALSE,
              out |-> <<Ping(ref, FALSE), TickError(ref)>>]
        ELSE [prev |-> StripVolatile(res), saved |-> StripVolatile(res), ok |-> TRUE,
              out |-> <<Ping(ref, FALSE)>>
                      \o Changes(ref, pv, StripVolatile(res), rmap, 1)
                      \o <<Effect("prev = res")>>]

\* ------------------------------------------------------------ setRoomMode
\* getRoom as it would be if it returned the first of all rooms instead of
\* the first of the rooms it filtered.  Then getRoom(roomId) and
\* getRoomByName(roomName) on the saved data sv: the first room of that id,
\* of that Name, or null.
getRoom_Unfiltered(sv, roomId) ==
    IF Len(sv.Room) < 1 THEN JsNull ELSE sv.Room[1]

getRoom(sv, roomId) ==
    LET rooms == SelectSeq(sv.Room, LAMBDA room : room.id = roomId)
    IN  IF Len(rooms) < 1 THEN JsNull ELSE rooms[1]

\* getRoomByName as it would be if it returned the last of the rooms it
\* filtered.
getRoomByName_Last(sv, roomName) ==
    LET rooms == SelectSeq(sv.Room, LAMBDA room : room.Name = roomName)
    IN  IF Len(rooms) < 1 THEN JsNull ELSE rooms[Len(rooms)]

getRoomByName(sv, roomName) ==
    LET rooms == SelectSeq(sv.Room, LAMBDA room : room.Name = roomName)
    IN  IF Len(rooms) < 1 THEN JsNull ELSE rooms[1]

\* A caller's getRoom(roomId) and getRoomByName(roomName) with the closure's
\* saved being sv: `saved.Room` throws a TypeError while saved is undefined.
getRoomCall(sv, roomId) ==
    IF "Room" \notin DOMAIN sv THEN [threw |-> TRUE, value |-> JsUndefined]
    ELSE [threw |-> FALSE, value |-> getRoom(sv, roomId)]

getRoomByNameCall(sv, roomName) ==
    IF "Room" \notin DOMAIN sv THEN [threw |-> TRUE, value |-> JsUndefined]
    ELSE [threw |-> FALSE, value |-> getRoomByName(sv, roomName)]

\* The room setRoomMode works on: looked up by name when Number(roomIdOrName)
\* is NaN, by id otherwise.
findRoom(sv, roomIdOrName) ==
    IF IsNaN(roomIdOrName) THEN getRoomByName(sv, roomIdOrName.v)
    ELSE getRoom(sv, Number(roomIdOrName))

\* validateArgs as it would be without the check of mode.
validateArgs_NoModeCheck(roomIdOrName, mode) ==
    IF roomIdOrName = JsUndefined THEN "TypeError"
    ELSE IF roomIdOrName \in {JsNull, Str("")} THEN "RoomIdInvalid"
    ELSE "ok"

\* The part of setRoomMode before its getFull: what the call is rejected
\* with, or "ok".  `roomIdOrName.constructor` throws for undefined, and an
\* async function turns what it throws into a rejection.
validateArgs(roomIdOrName, mode) ==
    IF roomIdOrName = JsUndefined THEN "TypeError"
    ELSE IF roomIdOrName \in {JsNull, Str("")} THEN "RoomIdInvalid"
    ELSE IF mode \in {JsUndefined, JsNull, Str("")} THEN "ModeNotProvided"
    ELSE "ok"

\* Is a value truthy, as `if ( x )` tests it?  For roomIdOrName and mode, and
\* for an optional number (<<>> when it is left out).
Truthy(x) == x \notin {JsUndefined, JsNull, Str(""), Num("0")}
TruthyNumber(n) == n # <<>> /\ n[1] # 0

\* The settings-object form of setRoomMode: the arguments the function goes
\* on with when roomIdOrName is the object o.  Fields that are left out are
\* undefined (<<>> for the numbers); boostTemp and boostDuration keep their
\* default values unless the field is truthy.
fromSettingsObject(o) ==
    [roomIdOrName |-> IF Truthy(o.roomIdOrName) THEN o.roomIdOrName ELSE JsUndefined,
     mode |-> IF Truthy(o.mode) THEN o.mode ELSE JsUndefined,
     boostTemp |-> IF TruthyNumber(o.boostTemp) THEN o.boostTemp ELSE <<>>,
     boostDuration |-> IF TruthyNumber(o.boostDuration) THEN o.boostDuration ELSE <<>>]

\* The checks of roomIdOrName and mode that follow the settings-object form:
\* what the call is rejected with, or "ok".
checkArgs(roomIdOrName, mode) ==
    IF roomIdOrName \in {JsUndefined, JsNull, Str("")} THEN "RoomIdInvalid"
    ELSE IF mode \in {JsUndefined, JsNull, Str("")} THEN "ModeNotProvided"
    ELSE "ok"

\* Limit temperature requests: the temperature setRoomMode goes on with.
clampBoostTemp(boostTemp, maxBoost) ==
    IF boostTemp # DegC(-20)
        THEN LET raised == IF boostTemp < DegC(TEMP_MINIMUM) THEN DegC(TEMP_MINIMUM)
                           ELSE boostTemp
             IN  IF raised > maxBoost THEN maxBoost ELSE raised
        ELSE boostTemp

\* The modes setRoomMode knows.
RoomModes == {"manual", "set", "boost", "off", "auto"}

\* The URL of a room: servicePaths['rooms'] followed by room.id.
roomUrl(room) == [path |-> "/data/domain/Room/", id |-> room.id]

\* The payloads: set the room to manual mode, cancel any boost, and patchData
\* as the switch fills it for a mode (before it, patchData as it would be if
\* 'off' took its SetPoint from boostTemp).
modeManualPatchData == [Mode |-> "Manual"]

cancelBoostPatchData ==
    [RequestOverride |-> [Type |-> "None", DurationMinutes |-> 0, SetPoint |-> 0,
                          Originator |-> "App"]]

patchData_OffFromBoostTemp(mode, room, boostTemp, boostDuration) ==
    CASE mode = "manual" ->
            [RequestOverride |->
                [Type |-> "Manual",
                 SetPoint |-> IF "ScheduledSetPoint" \in DOMAIN room
                                    /\ room.ScheduledSetPoint > toWiserTemp(boostTemp)
                                 THEN room.ScheduledSetPoint
                                 ELSE toWiserTemp(boostTemp)]]
      [] mode = "set" ->
            [RequestOverride |-> [Type |-> "Manual", SetPoint |-> toWiserTemp(boostTemp)]]
      [] mode = "boost" ->
            [RequestOverride |->
                [Type |-> "Manual", DurationMinutes |-> boostDuration,
                 SetPoint |-> toWiserTemp(boostTemp), Originator |-> "App"]]
      [] mode = "off" ->
            [RequestOverride |-> [Type |-> "Manual", SetPoint |-> toWiserTemp(boostTemp)]]
      [] mode = "auto" -> [Mode |-> "Auto"]

patchData(mode, room, boostTemp, boostDuration) ==
    CASE mode = "manual" ->
            [RequestOverride |->
                [Type |-> "Manual",
                 SetPoint |-> IF "ScheduledSetPoint" \in DOMAIN room
                                    /\ room.ScheduledSetPoint > toWiserTemp(boostTemp)
                                 THEN room.ScheduledSetPoint
                                 ELSE toWiserTemp(boostTemp)]]
      [] mode = "set" ->
            [RequestOverride |-> [Type |-> "Manual", SetPoint |-> toWiserTemp(boostTemp)]]
      [] mode = "boost" ->
            [RequestOverride |->
                [Type |-> "Manual", DurationMinutes |-> boostDuration,
                 SetPoint |-> toWiserTemp(boostTemp), Originator |-> "App"]]
      [] mode = "off" ->
            [RequestOverride |->
                [Type |-> "Manual", SetPoint |-> toWiserTemp(DegC(TEMP_OFF))]]
      [] mode = "auto" -> [Mode |-> "Auto"]

\* modePatches as it would be if `default:` shared the case of 'auto'.
modePatches_NoDefault(mode, room, boostTemp, boostDuration) ==
    LET lower == IF toLowerCase(mode) \in RoomModes THEN toLowerCase(mode) ELSE "auto"
        write(data) == [url |-> roomUrl(room), data |-> data]
    IN  [valid |-> TRUE,
         patches |->
             (IF lower \in {"manual", "off"}
                 THEN <<write(modeManualPatchData)>> ELSE <<>>)
             \o (IF lower # "boost" THEN <<write(cancelBoostPatchData)>> ELSE <<>>)
             \o <<write(patchData(lower, room, boostTemp, boostDuration))>>]

\* modePatches as it would be if the cancellation were pushed after the main
\* request.
modePatches_CancelLast(mode, room, boostTemp, boostDuration) ==
    LET lower == toLowerCase(mode)
        write(data) == [url |-> roomUrl(room), data |-> data]
    IN  IF lower \notin RoomModes THEN [valid |-> FALSE, patches |-> <<>>]
        ELSE [valid |-> TRUE,
              patches |->
                  (IF lower \in {"manual", "off"}
                      THEN <<write(modeManualPatchData)>> ELSE <<>>)
                  \o <<write(patchData(lower, room, boostTemp, boostDuration))>>
                  \o (IF lower # "boost" THEN <<write(cancelBoostPatchData)>> ELSE <<>>)]

\* The switch on mode.toLowerCase() and what follows it: is the mode valid,
\* and the writes (axios.patch) in the order they are issued.
modePatches(mode, room, boostTemp, boostDuration) ==
    LET lower == toLowerCase(mode)
        write(data) == [url |-> roomUrl(room), data |-> data]
    IN  IF lower \notin RoomModes THEN [valid |-> FALSE, patches |-> <<>>]
        ELSE [valid |-> TRUE,
              patches |->
                  (IF lower \in {"manual", "off"}
                      THEN <<write(modeManualPatchData)>> ELSE <<>>)
                  \o (IF lower # "boost" THEN <<write(cancelBoostPatchData)>> ELSE <<>>)
                  \o <<write(patchData(lower, room, boostTemp, boostDuration))>>]

\* setRoomMode after `await getFull()` for the call c, with the saved data sv
\* and the settings st: what getFull resolved to is never looked at (getFull
\* does not reject on a failed request, so the catch around it is not
\* entered).  saved.Room throws while saved is undefined, and so does
\* mode.toLowerCase for a mode that is no string.
setRoomModeFetched(c, sv, st) ==
    IF "Room" \notin DOMAIN sv THEN [st |-> "rejected", kind |-> "TypeError", patches |-> <<>>]
    ELSE LET room == findRoom(sv, c.roomIdOrName)
         IN  IF room = JsNull
                 THEN [st |-> "rejected", kind |-> "InvalidRoom", patches |-> <<>>]
             ELSE IF c.mode.t # "string"
                 THEN [st |-> "rejected", kind |-> "TypeError", patches |-> <<>>]
             ELSE LET p == modePatches(c.mode.v, room,
                                       clampBoostTemp(c.boostTemp, st.maxBoost),
                                       c.boostDuration)
                  IN  IF p.valid
                          THEN [st |-> "sending", kind |-> "", patches |-> p.patches]
                          ELSE [st |-> "rejected", kind |-> "InvalidMode", patches |-> <<>>]

\* setMaxBoost as it would be without the cap at TEMP_MAXIMUM.
setMaxBoost_NoCap(maxBoost, st) == [st EXCEPT !.maxBoost = maxBoost]

\* setMaxBoost(maxBoost) for a finite number.
setMaxBoost(maxBoost, st) ==
    [st EXCEPT !.maxBoost = IF maxBoost > DegC(TEMP_MAXIMUM) THEN DegC(TEMP_MAXIMUM)
                            ELSE maxBoost]

\* The response axios resolves write i of the writes ps with: the controller's
\* answer to it, and the request it answers.
WriteResponse(ps, i) == [data |-> [answered |-> i], config |-> [data |-> ps[i].data]]

\* `await axios.all(patches)` and the return that follows it, as it would be
\* if it reported the first result instead of the last.
axiosAll_FirstResult(ps, failed, first) ==
    IF failed = {}
        THEN [st |-> "resolved", kind |-> "",
              value |-> [numResults |-> Len(ps),
                         lastResult |-> WriteResponse(ps, 1).data,
                         lastConfigResult |-> WriteResponse(ps, 1).config.data]]
        ELSE [st |-> "rejected", kind |-> "SendFailed",
              value |-> [error |-> "Send to controller failed.",
                         details |-> [error |-> "transport", write |-> first]]]

\* `await axios.all(patches)` and the return that follows it, for the writes
\* ps of which those in `failed` are answered with an error, `first` being
\* the one of them whose error arrives first: Promise.all rejects with that
\* error, and resolves with the responses in the order of ps when none fails.
axiosAll(ps, failed, first) ==
    IF failed = {}
        THEN [st |-> "resolved", kind |-> "",
              value |-> [numResults |-> Len(ps),
                         lastResult |-> WriteResponse(ps, Len(ps)).data,
                         lastConfigResult |-> WriteResponse(ps, Len(ps)).config.data]]
        ELSE [st |-> "rejected", kind |-> "SendFailed",
              value |-> [error |-> "Send to controller failed.",
                         details |-> [error |-> "transport", write |-> first]]]

\* ---------------------------------------------------------- setSystemMode
\* The system service path, the override types, and the identifiers that are
\* declared where setSystemMode is defined (the module's requires and the
\* closure's constants and variables).
servicePaths ==
    [network |-> "/data/network/", wifiRSSI |-> "/data/network/Station/RSSI/",
     full |-> "/data/domain/", brandName |-> "/data/domain/System/BrandName/",
     devices |-> "/data/domain/Device/", heating |-> "/data/domain/HeatingChannel/",
     rooms |-> "/data/domain/Room/", roomStats |-> "/data/domain/RoomStat/",
     schedules |-> "/data/domain/Schedule", system |-> "/data/domain/System/",
     trvs |-> "/data/domain/SmartValve/"]

SystemOverrideType == [normal |-> 0, away |-> 2, bootAllRooms |-> 4,
                       cancelAllOverrides |-> 5]

Declared == {"axios", "servicePaths", "SystemOverrideType", "settings", "axiosConfig",
             "saved", "prev", "roomMap", "wiserMonitorRefs"}

\* setSystemMode(overrideMode): the payload is built (Type is undefined, <<>>,
\* for a name SystemOverrideType does not have), then the argument
\* servicePath['system'] of axios.patch is evaluated inside the try.  An
\* identifier that is not declared throws a ReferenceError there, before
\* axios.patch is called; the catch returns {'error': error}, which the async
\* function resolves with.
setSystemMode(overrideMode) ==
    LET payload == [RequestOverride |->
                       [Type |-> IF overrideMode \in DOMAIN SystemOverrideType
                                    THEN <<SystemOverrideType[overrideMode]>>
                                    ELSE <<>>]]
    IN  IF "servicePath" \notin Declared
            THEN [st |-> "resolved", value |-> [error |-> "ReferenceError"],
                  patches |-> <<>>]
            ELSE [st |-> "sending", value |-> NoValue,
                  patches |-> <<[url |-> servicePaths.system, data |-> payload]>>]

\* ---------------------------------------------------------- configuration
\* JavaScript values a caller may pass where a number is expected: a finite
\* number, NaN, Infinity, a string that is not empty.  An argument or field
\* that is left out is <<>>, a given one <<value>>.
Finite(n) == [t |-> "finite", n |-> n]
NaN == [t |-> "NaN", n |-> 0]
Infinity == [t |-> "Infinity", n |-> 0]
Text == [t |-> "string", n |-> 0]

\* `if ( x )` for such a field, and for a field that holds a string.
TruthyValue(x) == x # <<>> /\ x[1] # NaN /\ x[1] # Finite(0)
TruthyString(x) == x # <<>> /\ x[1] # ""

\* setMaxBoost(maxBoost) for any argument: a missing one is TEMP_MAXIMUM, one
\* that is no finite number is ignored.
setMaxBoostArg(arg, st) ==
    IF arg = <<>> THEN setMaxBoost(DegC(TEMP_MAXIMUM), st)
    ELSE IF arg[1].t = "finite" THEN setMaxBoost(arg[1].n, st)
    ELSE st

\* setFolder(folder) for a string that is not empty.
setFolder(folder, st) == [st EXCEPT !.folder = folder]

\* setBoostCancelTime(boostCancelTime) for a string: the times the pattern
\* matches, as 'HH:mm'; any other string is ignored.
MatchedTimes == ("7:30" :> "07:30") @@ ("2359" :> "23:59")
setBoostCancelTime(boostCancelTime, st) ==
    IF boostCancelTime \in DOMAIN MatchedTimes
        THEN [st EXCEPT !.boostCancelTime = <<MatchedTimes[boostCancelTime]>>]
        ELSE st

\* What setConfig does after its check of ip and secret.
configure(config, st, ax) ==
    LET s1 == IF config.interval = <<>> THEN st
              ELSE IF config.interval[1].t = "finite"
                  THEN [st EXCEPT !.interval = config.interval[1].n]
              ELSE st
        s2 == IF TruthyString(config.folder) THEN setFolder(config.folder[1], s1) ELSE s1
        s3 == IF TruthyValue(config.maxBoost) THEN setMaxBoostArg(config.maxBoost, s2)
              ELSE s2
        s4 == IF TruthyString(config.boostCancelTime)
                  THEN setBoostCancelTime(config.boostCancelTime[1], s3)
              ELSE s3
    IN  [threw |-> FALSE, settings |-> s4,
         axiosConfig |-> [baseURL |-> <<[scheme |-> "http", host |-> config.ip[1]]>>,
                          SECRET |-> config.secret]]

\* setConfig as it would be if it tested ip only.
setConfig_IpOnly(config, st, ax) ==
    IF ~TruthyString(config.ip)
        THEN [threw |-> TRUE, settings |-> st, axiosConfig |-> ax]
        ELSE configure(config, st, ax)

\* setConfig(config) with the settings st and the axiosConfig ax: it throws
\* unless both ip and secret are given and not empty.
setConfig(config, st, ax) ==
    IF ~TruthyString(config.ip) \/ ~TruthyString(config.secret)
        THEN [threw |-> TRUE, settings |-> st, axiosConfig |-> ax]
        ELSE configure(config, st, ax)

\* get as it would be without the check of baseURL and SECRET.
get_NoConfigCheck(service, ax) ==
    IF service \notin DOMAIN servicePaths
        THEN [st |-> "rejected", kind |-> "InvalidService", request |-> <<>>]
    ELSE [st |-> "requested", kind |-> "", request |-> <<servicePaths[service]>>]

\* get(service) up to `await axios.get`: what it is rejected with, or the
\* request it issues.
get(service, ax) ==
    IF service \notin DOMAIN servicePaths
        THEN [st |-> "rejected", kind |-> "InvalidService", request |-> <<>>]
    ELSE IF ax.baseURL = <<>> \/ ~TruthyString(ax.SECRET)
        THEN [st |-> "rejected", kind |-> "NotConfigured", request |-> <<>>]
    ELSE [st |-> "requested", kind |-> "", request |-> <<servicePaths[service]>>]

\* --------------------------------------------------------------- actions
\* The state after `Wiser()` has run: nothing fetched, no monitor started.
\* removedWhile, stored and fails are records about the run, not state of the
\* program; stored, fails and the "starting" entries of removedWhile are kept
\* only in a traced run.  A run calls monitor and removeMonitor with the
\* references refs and issues at most `fetches` fetches.
Constructed(t, refs, fetches) ==
    /\ run = [traced |-> t, refs |-> refs, fetches |-> fetches]
    /\ ctrl = 0
    /\ nfetch = 0
    /\ inflight = {}
    /\ mref = <<>>
    /\ timers = {}
    /\ wiserMonitorRefs = NoRefs
    /\ prev = NoValue
    /\ saved = NoValue
    /\ roomMap = <<>>
    /\ out = <<>>
    /\ last = [op |-> "init"]
    /\ removedWhile = <<>>
    /\ stored = <<>>
    /\ fails = <<>>
    /\ settings = [interval |-> MONITOR_LOOP_INTERVAL, folder |-> "",
                   maxBoost |-> DegC(BOOST_DEFAULT_TEMP), boostCancelTime |-> <<>>]
    /\ axiosConfig = [baseURL |-> <<>>, SECRET |-> <<>>]
    /\ applied = <<>>
    /\ prevAt = 0
    /\ call = [st |-> "none"]
    /\ patches = <<>>

Init == Constructed(FALSE, Refs, MaxFetches)

InitTraced == Constructed(TRUE, RefsTraced, MaxFetchesTraced)

\* Is the initial fetch of monitor call m still in flight?
Starting(m) == \E f \in inflight : f.mon = m /\ f.kind = "initial"

\* What removeMonitor(ref) finds each monitor call of that ref to be.
NoteRemoved(ref) ==
    [m \in DOMAIN removedWhile |->
        IF mref[m] # ref THEN removedWhile[m]
        ELSE IF Starting(m) THEN (IF run.traced THEN "starting" ELSE removedWhile[m])
        ELSE IF getMonitorRef(wiserMonitorRefs, ref) = m THEN "registered"
        ELSE removedWhile[m]]

\* The caller calls removeMonitor(ref).
RemoveMonitor(ref) ==
    LET r == removeMonitor(ref, wiserMonitorRefs, timers)
    IN  /\ wiserMonitorRefs' = r.refs
        /\ timers' = r.timers
        /\ out' = r.out
        /\ last' = [op |-> "removeMonitor", ref |-> ref,
                    had |-> ref \in DOMAIN wiserMonitorRefs]
        /\ removedWhile' = NoteRemoved(ref)
        /\ UNCHANGED <<ctrl, nfetch, inflight, mref, prev, saved, roomMap, run, prevAt, stored,
                       fails,
                       roomModeVars>>

\* The caller calls monitor(ref): removeMonitor(ref), then the initial getFull
\* is issued.
Monitor(ref) ==
    LET r == removeMonitor(ref, wiserMonitorRefs, timers)
        m == Len(mref) + 1
    IN  /\ Len(mref) < MaxMonitors
        /\ nfetch < run.fetches
        /\ wiserMonitorRefs' = r.refs
        /\ timers' = r.timers
        /\ mref' = Append(mref, ref)
        /\ nfetch' = nfetch + 1
        /\ inflight' = inflight \cup
              {[id |-> nfetch + 1, mon |-> m, kind |-> "initial", since |-> ctrl]}
        /\ out' = r.out
        /\ last' = [op |-> "monitor", ref |-> ref, mon |-> m,
                    had |-> ref \in DOMAIN wiserMonitorRefs]
        /\ removedWhile' = Append(NoteRemoved(ref), "none")
        /\ stored' = Append(stored, NoValue)
        /\ fails' = Append(fails, 0)
        /\ UNCHANGED <<ctrl, prev, saved, roomMap, run, prevAt,
                       roomModeVars>>

\* The timer of monitor call m fires: the tick's getFull is issued.
TimerFire(m) ==
    /\ m \in timers
    /\ nfetch < run.fetches
    /\ nfetch' = nfetch + 1
    /\ inflight' = inflight \cup
          {[id |-> nfetch + 1, mon |-> m, kind |-> "tick", since |-> ctrl]}
    /\ out' = <<>>
    /\ last' = [op |-> "timer", mon |-> m]
    /\ UNCHANGED <<ctrl, mref, timers, wiserMonitorRefs, prev, saved, roomMap, removedWhile,
                   run, prevAt, stored, fails,
                       roomModeVars>>

\* What the controller may answer to fetch f: its data at some moment between
\* the issue of f and now (the room only ever moves on, so these are the
\* versions from f.since to ctrl), or nothing but an error (no connection, an
\* HTTP error status).
Responses(f) == {ErrorResult} \cup {Snapshot(v, f.id) : v \in f.since..ctrl}

\* The response of an initial fetch arrives: getFull continues, then the
\* handlers of monitor's initial run.
InitialDone(f, resp) ==
    LET g == getFull(resp, saved, roomMap)
        r == initialRun(mref[f.mon], f.mon, g.value, prev, g.saved, timers,
                        wiserMonitorRefs)
    IN  /\ f.kind = "initial"
        /\ inflight' = inflight \ {f}
        /\ saved' = r.saved
        /\ roomMap' = g.roomMap
        /\ prev' = r.prev
        /\ timers' = r.timers
        /\ wiserMonitorRefs' = r.refs
        /\ out' = g.out \o r.out
        /\ last' = [op |-> "initial", mon |-> f.mon, ref |-> mref[f.mon],
                    ok |-> r.ok]
        /\ stored' = IF run.traced /\ r.ok THEN [stored EXCEPT ![f.mon] = r.prev] ELSE stored
        /\ prevAt' = IF run.traced /\ (\E i \in DOMAIN r.out : r.out[i] = Effect("prev = res"))
                      THEN f.id ELSE prevAt
        /\ UNCHANGED <<ctrl, nfetch, mref, removedWhile, run, fails,
                       roomModeVars>>

\* The response of a tick's fetch arrives: getFull continues, then the
\* handlers of the tick.
TickDone(f, resp) ==
    LET g == getFull(resp, saved, roomMap)
        r == tickRun(mref[f.mon], g.value, prev, g.saved, g.roomMap)
    IN  /\ f.kind = "tick"
        /\ inflight' = inflight \ {f}
        /\ saved' = r.saved
        /\ roomMap' = g.roomMap
        /\ prev' = r.prev
        /\ out' = g.out \o r.out
        /\ last' = [op |-> "tick", mon |-> f.mon, ref |-> mref[f.mon], ok |-> r.ok,
                    base |-> prev, own |-> stored[f.mon], fails |-> fails[f.mon],
                    at |-> IF run.traced THEN f.id ELSE 0, baseAt |-> prevAt]
        /\ stored' = IF run.traced /\ r.ok THEN [stored EXCEPT ![f.mon] = r.prev] ELSE stored
        /\ fails' = IF run.traced THEN [fails EXCEPT ![f.mon] = IF r.ok THEN 0 ELSE @ + 1]
                    ELSE fails
        /\ prevAt' = IF run.traced /\ (\E i \in DOMAIN r.out : r.out[i] = Effect("prev = res"))
                      THEN f.id ELSE prevAt
        /\ UNCHANGED <<ctrl, nfetch, mref, timers, wiserMonitorRefs, removedWhile, run,
                       roomModeVars>>

\* The room of the controller changes its Mode (somebody turns the dial).
ControllerChange ==
    /\ ctrl < MaxChanges
    /\ ctrl' = ctrl + 1
    /\ out' = <<>>
    /\ last' = [op |-> "env"]
    /\ UNCHANGED <<nfetch, inflight, mref, timers, wiserMonitorRefs, prev, saved,
                   roomMap, removedWhile, run, prevAt, stored, fails,
                       roomModeVars>>

\* ------------------------------------------------ actions of setRoomMode
\* The arguments callers pass.  A missing argument is <<>>, a given one <<v>>.
RoomArgs == {Num("8"), Num("999"), Str("Office"), Str("Nowhere"), Str("8"), Str(""),
             JsNull, JsUndefined}
ModeArgs == {Str(m) : m \in RoomModes \cup {"bingo", "Manual", "AUTO", ""}}
            \cup {JsNull, JsUndefined}
BoostTempArgs == {<<>>, <<DegC(-20)>>, <<DegC(3)>>, <<195>>, <<198>>, <<DegC(35)>>}
BoostDurationArgs == {<<>>, <<60>>}
MaxBoostArgs == {DegC(3), DegC(19), DegC(35)}

\* Has the promise of the call made last been settled?
Settled == call.st \in {"resolved", "rejected"}

\* The caller calls setRoomMode(roomIdOrName, mode, boostTemp, boostDuration)
\* while no other call of it is under way: the part up to `await getFull()`,
\* whose request is issued unless the arguments are rejected.
SetRoomMode(roomIdOrName, mode, boostTempArg, boostDurationArg) ==
    LET v == validateArgs(roomIdOrName, mode)
    IN  /\ call.st = "none"
        /\ call' = [st |-> IF v = "ok" THEN "fetching" ELSE "rejected",
                    kind |-> IF v = "ok" THEN "" ELSE v,
                    roomIdOrName |-> roomIdOrName,
                    mode |-> mode,
                    boostTemp |-> IF boostTempArg = <<>> THEN DegC(BOOST_DEFAULT_TEMP)
                                  ELSE boostTempArg[1],
                    boostDuration |-> IF boostDurationArg = <<>>
                                         THEN BOOST_DEFAULT_DURATION
                                         ELSE boostDurationArg[1],
                    fetch |-> IF v = "ok" THEN "issued" ELSE "none",
                    hadSaved |-> saved # NoValue,
                    numResults |-> 0,
                    value |-> NoValue,
                    op |-> "setRoomMode"]
        /\ patches' = <<>>
        /\ inflight' = IF v = "ok"
                           THEN inflight \cup {[id |-> 1, mon |-> 0, kind |-> "setRoomMode",
                                                since |-> ctrl]}
                           ELSE inflight
        /\ out' = <<>>
        /\ last' = [op |-> "setRoomMode"]
        /\ UNCHANGED <<ctrl, nfetch, mref, timers, wiserMonitorRefs, prev, saved, roomMap,
                       removedWhile, run, prevAt, stored, fails, settings, axiosConfig, applied>>

\* The settings objects emitted with 'setRoomMode'.
EventRoomArgs == {Num("11"), Num("8"), Num("0"), Str("Office"), JsUndefined}
EventModeArgs == {Str("auto"), Str("set"), Str("boost"), JsUndefined}
EventBoostTempArgs == {<<>>, <<0>>, <<198>>}
EventBoostDurationArgs == {<<>>, <<0>>, <<60>>}
RoomOpts ==
    [roomIdOrName : EventRoomArgs, mode : EventModeArgs,
     boostTemp : EventBoostTempArgs, boostDuration : EventBoostDurationArgs]

\* 'setRoomMode' is emitted with the settings object roomOpts while no call
\* is under way: the listener calls setRoomMode(roomOpts), which runs up to
\* `await getFull()`; the promise it returns is dropped.
EmitSetRoomMode(roomOpts) ==
    LET a == fromSettingsObject(roomOpts)
        v == checkArgs(a.roomIdOrName, a.mode)
    IN  /\ call.st = "none"
        /\ call' = [st |-> IF v = "ok" THEN "fetching" ELSE "rejected",
                    kind |-> IF v = "ok" THEN "" ELSE v,
                    roomIdOrName |-> a.roomIdOrName,
                    mode |-> a.mode,
                    boostTemp |-> IF a.boostTemp = <<>> THEN DegC(BOOST_DEFAULT_TEMP)
                                  ELSE a.boostTemp[1],
                    boostDuration |-> IF a.boostDuration = <<>>
                                         THEN BOOST_DEFAULT_DURATION
                                         ELSE a.boostDuration[1],
                    fetch |-> IF v = "ok" THEN "issued" ELSE "none",
                    hadSaved |-> saved # NoValue,
                    numResults |-> 0,
                    value |-> NoValue,
                    op |-> "setRoomMode",
                    given |-> roomOpts]
        /\ patches' = <<>>
        /\ inflight' = IF v = "ok"
                           THEN inflight \cup {[id |-> 1, mon |-> 0, kind |-> "setRoomMode",
                                                since |-> ctrl]}
                           ELSE inflight
        /\ out' = <<>>
        /\ last' = [op |-> "emitSetRoomMode"]
        /\ UNCHANGED <<ctrl, nfetch, mref, timers, wiserMonitorRefs, prev, saved, roomMap,
                       removedWhile, run, prevAt, stored, fails, settings, axiosConfig, applied>>

\* The response of setRoomMode's fetch arrives: getFull continues, then
\* setRoomMode up to `await axios.all(patches)`.
RoomModeFetched(f, resp) ==
    LET g == getFull(resp, saved, roomMap)
        r == setRoomModeFetched(call, g.saved, settings)
    IN  /\ f.kind = "setRoomMode"
        /\ inflight' = inflight \ {f}
        /\ saved' = g.saved
        /\ roomMap' = g.roomMap
        /\ call' = [call EXCEPT !.st = r.st, !.kind = r.kind,
                                !.fetch = IF g.value = ErrorResult THEN "failed" ELSE "ok"]
        /\ patches' = r.patches
        /\ out' = g.out
        /\ last' = [op |-> "roomModeFetched"]
        /\ UNCHANGED <<ctrl, nfetch, mref, timers, wiserMonitorRefs, prev, removedWhile,
                       run, prevAt, stored, fails, settings, axiosConfig, applied>>

\* The responses of the call's writes have arrived, those of the writes in
\* `failed` being errors and that of `first` the earliest of them:
\* axios.all(patches) resolves when none failed and rejects otherwise.
WritesDone(failed, first) ==
    LET r == axiosAll(patches, failed, first)
    IN  /\ call.st = "sending"
        /\ failed # {} => first \in failed
        /\ failed = {} => first = 1
        /\ call' = [call EXCEPT !.st = r.st, !.kind = r.kind, !.value = r.value,
                                !.numResults = IF failed = {} THEN r.value.numResults
                                               ELSE @]
        /\ out' = <<>>
        /\ last' = [op |-> "writesDone", anyFailed |-> failed # {}]
        /\ UNCHANGED <<ctrl, nfetch, inflight, mref, timers, wiserMonitorRefs, prev,
                       saved, roomMap, removedWhile, run, prevAt, stored, fails, settings,
                       axiosConfig, patches, applied>>

\* The caller's handler (.then or .catch) of the settled promise has run, and
\* the caller is free to call setRoomMode again.
Handled ==
    /\ Settled
    /\ call' = [st |-> "none"]
    /\ patches' = <<>>
    /\ applied' = <<>>
    /\ out' = <<>>
    /\ last' = [op |-> "env"]
    /\ UNCHANGED <<ctrl, nfetch, inflight, mref, timers, wiserMonitorRefs, prev, saved,
                   roomMap, removedWhile, run, prevAt, stored, fails, settings, axiosConfig>>

\* The controller applies write i of the call.  The writes were all started
\* before the first await (each axios.patch is called when it is pushed), so
\* they reach the controller over connections of their own and in any order.
ControllerApplies(i) ==
    /\ call.st = "sending"
    /\ i \in DOMAIN patches
    /\ \A k \in DOMAIN applied : applied[k] # i
    /\ applied' = Append(applied, i)
    /\ out' = <<>>
    /\ last' = [op |-> "env"]
    /\ UNCHANGED <<ctrl, nfetch, inflight, mref, timers, wiserMonitorRefs, prev, saved,
                   roomMap, removedWhile, run, prevAt, stored, fails, settings,
                   axiosConfig, call, patches>>

\* The caller calls getFull() while no other call of it is under way.
GetFull ==
    /\ \A f \in inflight : f.kind # "getFull"
    /\ inflight' = inflight \cup {[id |-> 2, mon |-> 0, kind |-> "getFull", since |-> ctrl]}
    /\ out' = <<>>
    /\ last' = [op |-> "env"]
    /\ UNCHANGED <<ctrl, nfetch, mref, timers, wiserMonitorRefs, prev, saved, roomMap,
                   removedWhile, run, prevAt, stored, fails, roomModeVars>>

\* The response of the caller's getFull arrives.
GetFullDone(f, resp) ==
    LET g == getFull(resp, saved, roomMap)
    IN  /\ f.kind = "getFull"
        /\ inflight' = inflight \ {f}
        /\ saved' = g.saved
        /\ roomMap' = g.roomMap
        /\ out' = g.out
        /\ last' = [op |-> "getFullDone"]
        /\ UNCHANGED <<ctrl, nfetch, mref, timers, wiserMonitorRefs, prev, removedWhile,
                       run, prevAt, stored, fails, roomModeVars>>

\* The caller calls setMaxBoost(maxBoost), or setMaxBoost() when arg is <<>>.
\* A traced run notes the argument.
SetMaxBoost(arg) ==
    /\ settings' = setMaxBoostArg(arg, settings)
    /\ out' = <<>>
    /\ last' = IF run.traced THEN [op |-> "setMaxBoost", maxBoost |-> arg]
               ELSE [op |-> "env"]
    /\ UNCHANGED <<ctrl, nfetch, inflight, mref, timers, wiserMonitorRefs, prev, saved,
                   roomMap, removedWhile, run, prevAt, stored, fails, call, patches, axiosConfig, applied>>

\* The mode names callers pass to setSystemMode.
SystemModeArgs == {"normal", "away", "bootAllRooms", "cancelAllOverrides", "home"}

\* The caller calls setSystemMode(overrideMode) while no other call is under
\* way: the function runs to its return without waiting for anything.
SetSystemMode(overrideMode) ==
    LET r == setSystemMode(overrideMode)
    IN  /\ call.st = "none"
        /\ call' = [st |-> r.st, kind |-> "", overrideMode |-> overrideMode,
                    fetch |-> "none", value |-> r.value, op |-> "setSystemMode"]
        /\ patches' = r.patches
        /\ out' = <<>>
        /\ last' = [op |-> "setSystemMode"]
        /\ UNCHANGED <<ctrl, nfetch, inflight, mref, timers, wiserMonitorRefs, prev,
                       saved, roomMap, removedWhile, run, prevAt, stored, fails, settings, axiosConfig, applied>>

NextRoomMode ==
    \/ \E roomIdOrName \in RoomArgs, mode \in ModeArgs, boostTemp \in BoostTempArgs,
          boostDuration \in BoostDurationArgs :
            SetRoomMode(roomIdOrName, mode, boostTemp, boostDuration)
    \/ \E f \in inflight : \E resp \in Responses(f) : RoomModeFetched(f, resp)
    \/ \E failed \in SUBSET DOMAIN patches : \E first \in DOMAIN patches :
            WritesDone(failed, first)
    \/ Handled
    \/ GetFull
    \/ \E f \in inflight : \E resp \in Responses(f) : GetFullDone(f, resp)
    \/ \E maxBoost \in MaxBoostArgs : SetMaxBoost(<<Finite(maxBoost)>>)
    \/ \E overrideMode \in SystemModeArgs : SetSystemMode(overrideMode)

\* The program driven through setRoomMode, getFull and setMaxBoost.
SpecRoomMode == Init /\ [][NextRoomMode]_vars

\* The modes of the calls whose writes the controller applies one by one.
NextWrites ==
    \/ \E mode \in RoomModes : SetRoomMode(Str("Office"), Str(mode), <<>>, <<>>)
    \/ \E f \in inflight : \E resp \in Responses(f) : RoomModeFetched(f, resp)
    \/ \E i \in DOMAIN patches : ControllerApplies(i)
    \/ Len(applied) = Len(patches) /\ WritesDone({}, 1)
    \/ Handled
    \/ ControllerChange

\* setRoomMode with a controller that applies the writes in any order and
\* answers them all.
SpecWrites == Init /\ [][NextWrites]_vars

NextEntry ==
    \/ \E roomOpts \in RoomOpts : EmitSetRoomMode(roomOpts)
    \/ \E f \in inflight : \E resp \in Responses(f) : RoomModeFetched(f, resp)
    \/ \E failed \in SUBSET DOMAIN patches : \E first \in DOMAIN patches :
            WritesDone(failed, first)
    \/ Handled
    \/ ControllerChange

\* The program driven through its 'setRoomMode' event.
SpecEntry == Init /\ [][NextEntry]_vars

\* What the controller with several rooms may answer to fetch f.
HouseResponses(f) == {ErrorResult} \cup {House(v, f.id) : v \in f.since..ctrl}

\* The ids and names callers look up.
RoomIdArgs == {8, 100}
RoomNameArgs == {"Office", "Narnia"}

\* The caller calls getRoom(roomId).
GetRoom(roomId) ==
    LET r == getRoomCall(saved, roomId)
    IN  /\ out' = <<>>
        /\ last' = [op |-> "getRoom", id |-> roomId, threw |-> r.threw,
                    value |-> r.value]
        /\ UNCHANGED <<ctrl, nfetch, inflight, mref, timers, wiserMonitorRefs, prev,
                       saved, roomMap, removedWhile, run, prevAt, stored, fails, roomModeVars>>

\* The caller calls getRoomByName(roomName).
GetRoomByName(roomName) ==
    LET r == getRoomByNameCall(saved, roomName)
    IN  /\ out' = <<>>
        /\ last' = [op |-> "getRoomByName", name |-> roomName, threw |-> r.threw,
                    value |-> r.value]
        /\ UNCHANGED <<ctrl, nfetch, inflight, mref, timers, wiserMonitorRefs, prev,
                       saved, roomMap, removedWhile, run, prevAt, stored, fails, roomModeVars>>

\* The configurations callers pass to setConfig, the values they pass to
\* setMaxBoost, and the services they ask get for.
ConfigArgs ==
    [ip : {<<>>, <<"">>, <<"10.0.0.2">>},
     secret : {<<>>, <<"s3cret">>},
     interval : {<<>>, <<Finite(30)>>, <<Text>>},
     folder : {<<>>, <<"/data">>},
     maxBoost : {<<>>, <<Finite(DegC(25))>>, <<Finite(DegC(35))>>, <<Infinity>>},
     boostCancelTime : {<<>>, <<"7:30">>}]
MaxBoostValues == {<<>>, <<Finite(DegC(19))>>, <<Finite(DegC(35))>>, <<NaN>>, <<Text>>}
ServiceArgs == {"test", "wifiRSSI", "full"}

\* The caller calls setConfig(config).
SetConfig(config) ==
    LET r == setConfig(config, settings, axiosConfig)
    IN  /\ settings' = r.settings
        /\ axiosConfig' = r.axiosConfig
        /\ out' = <<>>
        /\ last' = [op |-> "setConfig", threw |-> r.threw, ip |-> config.ip,
                    secret |-> config.secret, maxBoost |-> config.maxBoost]
        /\ UNCHANGED <<ctrl, nfetch, inflight, mref, timers, wiserMonitorRefs, prev,
                       saved, roomMap, removedWhile, run, prevAt, stored, fails, call,
                       patches, applied>>

\* The caller calls get(service) while no other call of it is under way.
Get(service) ==
    LET r == get(service, axiosConfig)
    IN  /\ \A f \in inflight : f.kind # "get"
        /\ inflight' = IF r.st = "requested"
                           THEN inflight \cup {[id |-> 3, mon |-> 0, kind |-> "get",
                                                since |-> ctrl]}
                           ELSE inflight
        /\ out' = <<>>
        /\ last' = [op |-> "get", service |-> service, st |-> r.st, kind |-> r.kind]
        /\ UNCHANGED <<ctrl, nfetch, mref, timers, wiserMonitorRefs, prev, saved, roomMap,
                       removedWhile, run, prevAt, stored, fails, roomModeVars>>

\* The response of get's request arrives, and get's promise is settled.
GetDone(f) ==
    /\ f.kind = "get"
    /\ inflight' = inflight \ {f}
    /\ out' = <<>>
    /\ last' = [op |-> "env"]
    /\ UNCHANGED <<ctrl, nfetch, mref, timers, wiserMonitorRefs, prev, saved, roomMap,
                   removedWhile, run, prevAt, stored, fails, roomModeVars>>

NextCalls ==
    \/ GetFull
    \/ \E f \in inflight : \E resp \in HouseResponses(f) : GetFullDone(f, resp)
    \/ \E roomId \in RoomIdArgs : GetRoom(roomId)
    \/ \E roomName \in RoomNameArgs : GetRoomByName(roomName)
    \/ \E maxBoost \in MaxBoostArgs : SetMaxBoost(<<Finite(maxBoost)>>)
    \/ ControllerChange

\* The program driven through getFull, the lookups of rooms and setMaxBoost.
SpecCalls == Init /\ [][NextCalls]_vars

NextHouse ==
    \/ \E ref \in run.refs : Monitor(ref)
    \/ \E ref \in run.refs : RemoveMonitor(ref)
    \/ \E m \in 1..Len(mref) : TimerFire(m)
    \/ \E f \in inflight : \E resp \in HouseResponses(f) : InitialDone(f, resp)
    \/ \E f \in inflight : \E resp \in HouseResponses(f) : TickDone(f, resp)
    \/ ControllerChange

\* The monitors of a controller that has a room taken off.
SpecHouse == Init /\ [][NextHouse]_vars

\* getFull called by the monitors, by setRoomMode and by the caller directly.
NextShared ==
    \/ \E ref \in run.refs : Monitor(ref)
    \/ \E m \in 1..Len(mref) : TimerFire(m)
    \/ \E f \in inflight : \E resp \in HouseResponses(f) : InitialDone(f, resp)
    \/ \E f \in inflight : \E resp \in HouseResponses(f) : TickDone(f, resp)
    \/ ControllerChange
    \/ call.st = "none" /\ GetFull
    \/ \E f \in inflight : \E resp \in HouseResponses(f) : GetFullDone(f, resp)
    \/ (\A f \in inflight : f.kind # "getFull") /\ SetRoomMode(Str("Den"), Str("auto"), <<>>, <<>>)
    \/ \E f \in inflight : \E resp \in HouseResponses(f) : RoomModeFetched(f, resp)
    \/ WritesDone({}, 1)
    \/ Handled

\* One monitor name and one fetch less than in Spec, with getFull and
\* setRoomMode called beside the monitors, one call at a time.
SpecShared == Constructed(FALSE, {"wiser"}, MaxFetches - 1) /\ [][NextShared]_vars

NextConfig ==
    \/ \E arg \in MaxBoostValues : SetMaxBoost(arg)
    \/ \E config \in ConfigArgs : SetConfig(config)
    \/ \E service \in ServiceArgs : Get(service)
    \/ \E f \in inflight : GetDone(f)

\* The program driven through setConfig, setMaxBoost and get, in a traced
\* run.
SpecConfig == InitTraced /\ [][NextConfig]_vars

Next ==
    \/ \E ref \in run.refs : Monitor(ref)
    \/ \E ref \in run.refs : RemoveMonitor(ref)
    \/ \E m \in 1..Len(mref) : TimerFire(m)
    \/ \E f \in inflight : \E resp \in Responses(f) : InitialDone(f, resp)
    \/ \E f \in inflight : \E resp \in Responses(f) : TickDone(f, resp)
    \/ ControllerChange

Spec == Init /\ [][Next]_vars

\* The same program in a traced run.
SpecTraced == InitTraced /\ [][Next]_vars

\* ---------------------------------------------------------------- claims
\* The places of out that hold an entry named name.
At(name) == {i \in DOMAIN out : out[i].ev = name}

\* The places of out that hold exactly the entry e.
Holds(e) == {i \in DOMAIN out : out[i] = e}

\* Were all monitors so far started under different names?
DistinctNames == \A a, b \in DOMAIN mref : a # b => mref[a] # mref[b]

\* Is the handle of monitor call m the one registered under its ref?
Registered(m) == mref[m] \in DOMAIN wiserMonitorRefs /\ wiserMonitorRefs[mref[m]] = m

\* C1: monitor restart.  For every ref there is at most one active timer, every
\* active timer of ref is the one registered under ref, and a successful
\* initial run leaves ref with an active timer: no duplicate and no
\* unregistered timer stays active, in whatever order initial fetches complete.
C1_MonitorRestart ==
    \A ref \in Refs :
        LET active == {m \in timers : mref[m] = ref}
        IN  /\ Cardinality(active) <= 1
            /\ \A m \in active : Registered(m)
            /\ (last.op = "initial" /\ last.ok /\ last.ref = ref) => active # {}

\* C2: each named monitor owns its previous snapshot.  When monitors are
\* started under different names, the snapshot a successful tick of monitor A
\* is diffed against (last.base) is the one A itself stored last (last.own).
C2_OwnPrevious ==
    (last.op = "tick" /\ last.ok /\ DistinctNames) => last.base = last.own

\* C3: removeMonitor(ref) while monitor(ref) is still starting stops it.  A
\* monitor whose initial fetch was in flight when removeMonitor ran for its
\* ref never has an active timer, never is registered and never has a tick
\* fetch (stated for monitors of different names, each started once).
C3_RemoveWhileStarting ==
    \A m \in DOMAIN mref :
        (removedWhile[m] = "starting" /\ DistinctNames) =>
            /\ m \notin timers
            /\ ~Registered(m)
            /\ \A f \in inflight : ~(f.mon = m /\ f.kind = "tick")

\* C4: after removeMonitor(ref) on a running monitor whose handle is
\* registered, its timer is inactive and no step issues a new tick fetch for
\* it; a tick fetch already in flight stays and may still be delivered.
C4_NoTickAfterRemove ==
    [][\A m \in DOMAIN removedWhile' :
          removedWhile'[m] = "registered" =>
              /\ m \notin timers'
              /\ \A f \in inflight' \ inflight : ~(f.mon = m /\ f.kind = "tick")]_vars

\* C4, its case: the handle of m was removed while registered, and a tick of m
\* that was in flight has been delivered since and pinged with m's ref.
C4_Witness ==
    /\ last.op = "tick"
    /\ removedWhile[last.mon] = "registered"
    /\ Holds(Ping(last.ref, FALSE)) # {}

\* C5: removeMonitor(ref) with a handle registered under ref cancels its
\* timer, deletes the entry and emits exactly one wiserMonitorRemoved
\* {monitorRef: ref}; with no handle registered under ref it emits nothing and
\* leaves the registry and the timers as they are.
C5_RemoveMonitor ==
    [][\A ref \in Refs :
          (last'.op = "removeMonitor" /\ last'.ref = ref) =>
              IF ref \in DOMAIN wiserMonitorRefs
                  THEN /\ wiserMonitorRefs[ref] \notin timers'
                       /\ ref \notin DOMAIN wiserMonitorRefs'
                       /\ Cardinality({i \in DOMAIN out' :
                              out'[i].ev = "wiserMonitorRemoved"}) = 1
                       /\ \E i \in DOMAIN out' :
                              out'[i] = [ev |-> "wiserMonitorRemoved", monitorRef |-> ref]
                  ELSE /\ out' = <<>>
                       /\ wiserMonitorRefs' = wiserMonitorRefs
                       /\ timers' = timers]_vars

\* C6: when the initial fetch of monitor(ref) fails, a wiserError tagged with
\* ref is emitted, no timer is scheduled and no handle is registered.
C6_InitialFailure ==
    (last.op = "initial" /\ ~last.ok) =>
        /\ \E i \in At("wiserError") :
              "monitorRef" \in DOMAIN out[i] /\ out[i].monitorRef = last.ref
        /\ last.mon \notin timers
        /\ ~Registered(last.mon)

\* C7: a tick whose fetch fails emits a wiserError tagged with the monitor's
\* ref and leaves the stored previous snapshot and the registry unchanged.
C7_TickFailureFrame ==
    [][(last'.op = "tick" /\ ~last'.ok) =>
          /\ \E i \in DOMAIN out' :
                /\ out'[i].ev = "wiserError"
                /\ "monitorRef" \in DOMAIN out'[i]
                /\ out'[i].monitorRef = last'.ref
          /\ prev' = prev
          /\ wiserMonitorRefs' = wiserMonitorRefs]_vars

\* C7, its case: a tick has just failed while a snapshot was stored and a
\* handle registered.
C7_Witness ==
    /\ last.op = "tick"
    /\ ~last.ok
    /\ prev # NoValue
    /\ DOMAIN wiserMonitorRefs # {}
    /\ At("wiserError") # {}

\* C8: poll failures are not fatal.  A failed tick leaves the monitor's timer
\* as it was, and when a tick of a monitor succeeds after failed ticks of it
\* and the room's Mode is no longer the one of the snapshot that monitor
\* stored last, the tick reports the change of Mode (stated for monitors of
\* different names).
C8_SelfHeal ==
    /\ (last.op = "tick" /\ ~last.ok) =>
          (last.mon \in timers \/ removedWhile[last.mon] = "registered")
    /\ (/\ last.op = "tick"
        /\ last.ok
        /\ last.fails > 0
        /\ DistinctNames
        /\ last.own.Room[1].Mode # prev.Room[1].Mode)
          => \E i \in At("wiserChange") :
                /\ out[i].monitorRef = last.ref
                /\ out[i].type = "Room"
                /\ "Mode" \in DOMAIN out[i].changes

\* C9: a wiserPing is emitted for every monitor fetch that succeeds and for
\* none that fails; a failed fetch produces a wiserError and nothing else.
C9_PingOnlyOnSuccess ==
    last.op \in {"initial", "tick"} =>
        /\ last.ok => At("wiserPing") # {}
        /\ ~last.ok => (At("wiserPing") = {} /\ At("wiserError") = DOMAIN out)

\* C10: a successful initial run emits one ping tagged initialRun, then stores
\* the snapshot as previous, then schedules the timer, then registers the
\* handle under ref and then delivers wiserMonitorRef; it emits exactly one
\* ping, and afterwards the timer is active and registered under ref.
C10_InitialRunOrder ==
    (last.op = "initial" /\ last.ok) =>
        /\ Cardinality(At("wiserPing")) = 1
        /\ Cardinality(Holds(Ping(last.ref, TRUE))) = 1
        /\ \E p \in Holds(Ping(last.ref, TRUE)), s \in At("prev = res"),
              t \in At("setInterval"), r \in At("wiserMonitorRefs[ref] = timeoutRef"),
              e \in Holds([ev |-> "wiserMonitorRef", monitorRef |-> last.ref,
                           timeoutRef |-> last.mon]) :
              p < s /\ s < t /\ t < r /\ r < e
        /\ prev = saved
        /\ prev # NoValue
        /\ last.mon \in timers
        /\ Registered(last.mon)

\* C10, its case: an initial run has just succeeded and delivered its handle.
C10_Witness ==
    /\ last.op = "initial"
    /\ last.ok
    /\ At("wiserMonitorRef") # {}
    /\ Holds(Ping(last.ref, TRUE)) # {}

\* The snapshots monitors can have stored so far: the data of a fetch issued
\* so far, without the two clock fields.
StoredSnapshots == {StripVolatile(Snapshot(v, t)) : v \in 0..ctrl, t \in 1..nfetch}

\* C11: a monitor never diffs against an empty previous snapshot.  The initial
\* run of a monitor emits no wiserChange, and the snapshot a successful tick
\* is diffed against (last.base) is one that an earlier successful fetch
\* delivered.
C11_NeverDiffsEmpty ==
    /\ last.op = "initial" => At("wiserChange") = {}
    /\ (last.op = "tick" /\ last.ok) =>
          (last.base # NoValue /\ last.base \in StoredSnapshots)

\* C11, its case: a tick has been diffed against the snapshot of an earlier
\* fetch and reported a change.
C11_Witness ==
    /\ last.op = "tick"
    /\ last.ok
    /\ last.base \in StoredSnapshots
    /\ At("wiserChange") # {}

\* The entities of snapshot res of which a field that is no noise field
\* differs from the same field of the entity of pv at the same type and index.
SurvivingRecords(pv, res) ==
    {e \in UNION {{<<ArrayTypes[t], i>> : i \in 1..Len(res[ArrayTypes[t]])} :
                     t \in 1..Len(ArrayTypes)} :
        /\ e[2] <= Len(pv[e[1]])
        /\ \E k \in (DOMAIN res[e[1]][e[2]] \cap DOMAIN pv[e[1]][e[2]]) \ NoiseFields :
              res[e[1]][e[2]][k] # pv[e[1]][e[2]][k]}

\* C12: a successful tick emits one ping, then one wiserChange per surviving
\* change record, then replaces the stored previous snapshot by the new one
\* (the one getFull saved); it replaces it on every successful tick, also when
\* no record survived.
C12_TickOrder ==
    (last.op = "tick" /\ last.ok) =>
        /\ Cardinality(At("wiserPing")) = 1
        /\ Cardinality(Holds(Ping(last.ref, FALSE))) = 1
        /\ Cardinality(At("prev = res")) = 1
        /\ Cardinality(At("wiserChange")) = Cardinality(SurvivingRecords(last.base, prev))
        /\ \A p \in At("wiserPing"), c \in At("wiserChange"), s \in At("prev = res") :
              p < c /\ c < s
        /\ \A p \in At("wiserPing"), s \in At("prev = res") : p < s
        /\ prev = saved
        /\ prev \in StoredSnapshots

\* C12, its case: a successful tick found no surviving record, and the
\* snapshot it stored is another one than the one it was diffed against.
C12_Witness ==
    /\ last.op = "tick"
    /\ last.ok
    /\ At("wiserChange") = {}
    /\ At("prev = res") # {}
    /\ prev # last.base

\* C13: the ticks of one monitor are strictly sequential.  At no time are two
\* tick fetches of the same monitor in flight.
C13_TicksSequential ==
    \A f, g \in inflight :
        (f.kind = "tick" /\ g.kind = "tick" /\ f.mon = g.mon) => f = g

\* ---------------------------------------------------- claims: setRoomMode
\* Has the call made last got the response of its fetch, and in this very
\* step?
JustFetched == last.op = "roomModeFetched"

\* Does the argument x name a room of the snapshot sv: by its id, as a number
\* or in digits, or by its Name?
NamesRoom(x, sv) ==
    \E i \in DOMAIN sv.Room :
        \/ x.t = "string" /\ x.v = sv.Room[i].Name
        \/ /\ x.t \in {"string", "number"}
           /\ x.v \in DOMAIN Numerals
           /\ Numerals[x.v] = sv.Room[i].id

\* The payloads of the writes the call issued, in order.
Payloads == [i \in DOMAIN patches |-> patches[i].data]

\* The override-cancellation payload.
Cancellation ==
    [RequestOverride |-> [Type |-> "None", DurationMinutes |-> 0, SetPoint |-> 0,
                          Originator |-> "App"]]

\* C14: if the fetch of setRoomMode fails, the call is rejected with the 'Get
\* Full failed' kind and issues no write, whether or not a snapshot was
\* saved before.
C14_FetchFailed ==
    (JustFetched /\ call.fetch = "failed") =>
        /\ call.st = "rejected"
        /\ call.kind = "GetFullFailed"
        /\ patches = <<>>

\* C15: when the room argument names no room of the snapshot just fetched, the
\* call is rejected with the invalid-room kind and issues no write, whatever
\* the mode.
C15_InvalidRoom ==
    (JustFetched /\ call.fetch = "ok" /\ ~NamesRoom(call.roomIdOrName, saved)) =>
        /\ call.st = "rejected"
        /\ call.kind = "InvalidRoom"
        /\ patches = <<>>

\* C15, its case: setRoomMode(999, 'auto') was rejected after a successful
\* fetch.
C15_Witness ==
    /\ JustFetched
    /\ call.fetch = "ok"
    /\ call.roomIdOrName = Num("999")
    /\ call.mode = Str("auto")
    /\ call.kind = "InvalidRoom"

\* C16: when the room resolves and the mode, in lower case, is none of
\* manual, set, boost, off, auto, the call is rejected with the invalid-mode
\* kind and has issued no write.
C16_InvalidMode ==
    (/\ JustFetched
     /\ call.fetch = "ok"
     /\ NamesRoom(call.roomIdOrName, saved)
     /\ toLowerCase(call.mode.v) \notin {"manual", "set", "boost", "off", "auto"}) =>
        /\ call.st = "rejected"
        /\ call.kind = "InvalidMode"
        /\ patches = <<>>

\* C16, its case: setRoomMode('Office', 'bingo') was rejected.
C16_Witness ==
    /\ JustFetched
    /\ call.roomIdOrName = Str("Office")
    /\ call.mode = Str("bingo")
    /\ call.kind = "InvalidMode"

\* C17: a call whose room identifier or mode is empty, null or missing is
\* rejected without a network call: its fetch is never issued and it issues no
\* write.
C17_NoNetworkCall ==
    (/\ call.st # "none"
     /\ call.op = "setRoomMode"
     /\ \/ call.roomIdOrName \in {Str(""), JsNull, JsUndefined}
        \/ call.mode \in {Str(""), JsNull, JsUndefined}) =>
        /\ call.st = "rejected"
        /\ call.fetch = "none"
        /\ \A f \in inflight : f.kind # "setRoomMode"
        /\ patches = <<>>

\* C17, its case: setRoomMode('Office', null) was rejected.
C17_Witness ==
    /\ call.st = "rejected"
    /\ call.roomIdOrName = Str("Office")
    /\ call.mode = JsNull
    /\ call.fetch = "none"

\* C18: the writes of a call go to the URL of its room in this order: boost,
\* the primary write only; set and auto, the cancellation, then the primary
\* write; manual and off, Mode=Manual, then the cancellation, then the primary
\* write.
C18_WriteOrder ==
    (JustFetched /\ call.st = "sending") =>
        LET mode == toLowerCase(call.mode.v)
            room == findRoom(saved, call.roomIdOrName)
        IN  /\ \A i \in DOMAIN patches :
                  patches[i].url = [path |-> "/data/domain/Room/", id |-> room.id]
            /\ mode = "boost" =>
                  (Len(patches) = 1 /\ Payloads[1] # Cancellation)
            /\ mode \in {"set", "auto"} =>
                  /\ Len(patches) = 2
                  /\ Payloads[1] = Cancellation
                  /\ Payloads[2] # Cancellation
            /\ mode \in {"manual", "off"} =>
                  /\ Len(patches) = 3
                  /\ Payloads[1] = [Mode |-> "Manual"]
                  /\ Payloads[2] = Cancellation
                  /\ Payloads[3] \notin {Cancellation, [Mode |-> "Manual"]}

\* C18, its case: a call with mode manual has issued its three writes.
C18_Witness ==
    /\ JustFetched
    /\ call.st = "sending"
    /\ call.mode = Str("manual")
    /\ Len(patches) = 3

\* The larger of two numbers.
Max(a, b) == IF a > b THEN a ELSE b

\* C19: the payload of the primary (last) write is the one of the table:
\* manual, override Manual with SetPoint max(toWire(clamped), ScheduledSetPoint);
\* set, override Manual with SetPoint toWire(clamped); boost, override Manual
\* with DurationMinutes, SetPoint toWire(clamped) and Originator App; off,
\* override Manual with SetPoint -200; auto, Mode Auto and no override.
C19_PrimaryPayload ==
    (JustFetched /\ call.st = "sending") =>
        LET mode == toLowerCase(call.mode.v)
            room == findRoom(saved, call.roomIdOrName)
            wire == toWiserTemp(clampBoostTemp(call.boostTemp, settings.maxBoost))
            primary == Payloads[Len(patches)]
        IN  /\ mode = "manual" =>
                  primary = [RequestOverride |->
                                [Type |-> "Manual",
                                 SetPoint |-> Max(wire, room.ScheduledSetPoint)]]
            /\ mode = "set" =>
                  primary = [RequestOverride |-> [Type |-> "Manual", SetPoint |-> wire]]
            /\ mode = "boost" =>
                  primary = [RequestOverride |->
                                [Type |-> "Manual", DurationMinutes |-> call.boostDuration,
                                 SetPoint |-> wire, Originator |-> "App"]]
            /\ mode = "off" =>
                  primary = [RequestOverride |-> [Type |-> "Manual", SetPoint |-> -200]]
            /\ mode = "auto" => primary = [Mode |-> "Auto"]

\* C19, its case: mode manual with a boostTemp below the room's scheduled set
\* point has written the scheduled set point.
C19_Witness ==
    /\ JustFetched
    /\ call.st = "sending"
    /\ call.mode = Str("manual")
    /\ call.boostTemp = DegC(3)
    /\ toWiserTemp(clampBoostTemp(call.boostTemp, settings.maxBoost)) = 50
    /\ Payloads[Len(patches)].RequestOverride.SetPoint = 180

\* The temperature the clamping rule of the claim gives.
Clamped(boostTemp, maxBoost) ==
    IF boostTemp = DegC(-20) THEN boostTemp
    ELSE IF boostTemp < DegC(5) THEN DegC(5)
    ELSE IF boostTemp > maxBoost THEN maxBoost
    ELSE boostTemp

\* C20: clamping.  Unless boostTemp is exactly -20, a boostTemp below 5 is
\* raised to 5 and one above the configured maxBoost is lowered to maxBoost;
\* -20 is left as it is; the call never fails over it.  Read off the SetPoint
\* that mode set writes.
C20_Clamping ==
    (/\ JustFetched
     /\ call.fetch = "ok"
     /\ NamesRoom(call.roomIdOrName, saved)
     /\ toLowerCase(call.mode.v) = "set") =>
        /\ call.st = "sending"
        /\ Payloads[Len(patches)].RequestOverride.SetPoint
              = toWiserTemp(Clamped(call.boostTemp, settings.maxBoost))

\* C21: the writes of a call.  If any write is answered with an error, the
\* call is rejected with the 'Send to controller failed' kind, which carries
\* that error, and the step issues no further write or fetch.  If none is,
\* the call resolves with numResults being the number of writes issued and
\* with the response and the request of the last write only.
C21_WriteFailures ==
    [][last'.op = "writesDone" =>
          /\ patches' = patches
          /\ inflight' = inflight
          /\ IF last'.anyFailed
                 THEN /\ call'.st = "rejected"
                      /\ call'.kind = "SendFailed"
                      /\ \E i \in DOMAIN patches :
                            call'.value.details = [error |-> "transport", write |-> i]
                 ELSE /\ call'.st = "resolved"
                      /\ call'.value =
                            [numResults |-> Len(patches),
                             lastResult |-> [answered |-> Len(patches)],
                             lastConfigResult |-> Payloads[Len(patches)]]]_vars

\* C21, its case: of the three writes of a call the second has failed, and
\* the call is rejected with that error.
C21_Witness ==
    /\ last.op = "writesDone"
    /\ Len(patches) = 3
    /\ call.st = "rejected"
    /\ call.value.details.write = 2

\* C22: every mode issues at least one and at most two writes.
C22_WriteCount ==
    call.st = "sending" => Len(patches) \in 1..2

\* The call record of the direct call setRoomMode(roomIdOrName, mode,
\* boostTemp, boostDuration) with the field values of the settings object o.
DirectCall(o) ==
    [roomIdOrName |-> o.roomIdOrName, mode |-> o.mode,
     boostTemp |-> IF o.boostTemp = <<>> THEN DegC(BOOST_DEFAULT_TEMP)
                   ELSE o.boostTemp[1],
     boostDuration |-> IF o.boostDuration = <<>> THEN BOOST_DEFAULT_DURATION
                       ELSE o.boostDuration[1]]

\* C23: the event entry point is equivalent to the direct call.  Emitting
\* 'setRoomMode' with a settings object issues a fetch exactly when the
\* direct call with the same field values does, and after the fetch the same
\* sequence of writes, for every field value (0 and left-out fields too).
C23_EventEquivalent ==
    /\ last.op = "emitSetRoomMode" =>
          ((call.fetch = "issued")
              <=> (validateArgs(call.given.roomIdOrName, call.given.mode) = "ok"))
    /\ (JustFetched /\ validateArgs(call.given.roomIdOrName, call.given.mode) = "ok") =>
          patches = setRoomModeFetched(DirectCall(call.given), saved, settings).patches

\* C24: setSystemMode with a recognized mode name issues exactly one write,
\* to the system service path, whose RequestOverride.Type is the enumerated
\* value of the name (normal 0, away 2, bootAllRooms 4, cancelAllOverrides 5),
\* and goes on to return the controller's response to it.
C24_SystemModeWrite ==
    \A name \in {"normal", "away", "bootAllRooms", "cancelAllOverrides"} :
        (last.op = "setSystemMode" /\ call.overrideMode = name) =>
            /\ Len(patches) = 1
            /\ patches[1].url = "/data/domain/System/"
            /\ patches[1].data.RequestOverride.Type
                  = <<CASE name = "normal" -> 0 [] name = "away" -> 2
                        [] name = "bootAllRooms" -> 4 [] name = "cancelAllOverrides" -> 5>>
            /\ "error" \notin DOMAIN call.value

\* C25: setSystemMode with a mode name outside normal, away, bootAllRooms and
\* cancelAllOverrides is rejected over the name, and issues no write.
C25_SystemModeUnknown ==
    (/\ last.op = "setSystemMode"
     /\ call.overrideMode \notin {"normal", "away", "bootAllRooms", "cancelAllOverrides"}) =>
        /\ call.st = "rejected"
        /\ call.kind = "InvalidMode"
        /\ patches = <<>>

\* C26: setRoomMode and setSystemMode surface every failure as a rejection.
\* A call never resolves with an error value, and a setRoomMode whose fetch
\* failed is rejected.
C26_FailuresRejected ==
    /\ call.st = "resolved" => "error" \notin DOMAIN call.value
    /\ (JustFetched /\ call.fetch = "failed") => call.st = "rejected"

\* The three fields the tick treats as noise.
Noise == {"ReceptionOfController", "ReceptionOfDevice", "PendingZigbeeMessageMask"}

\* The fields in which the snapshots a and b differ: <<type, index, field>>
\* for the entities and fields both have.
FieldDifferences(a, b) ==
    {d \in {"Room", "Device"} \X (1..2) \X
           {"id", "Name", "Mode", "ScheduledSetPoint", "SmartValveIds", "ProductType",
            "ReceptionOfController", "ReceptionOfDevice", "PendingZigbeeMessageMask"} :
        /\ d[1] \in DOMAIN a
        /\ d[1] \in DOMAIN b
        /\ d[2] <= Len(a[d[1]])
        /\ d[2] <= Len(b[d[1]])
        /\ d[3] \in DOMAIN a[d[1]][d[2]] \cap DOMAIN b[d[1]][d[2]]
        /\ a[d[1]][d[2]][d[3]] # b[d[1]][d[2]][d[3]]}

\* C27: every wiserChange has a changes map that is not empty and holds none
\* of ReceptionOfController, ReceptionOfDevice and PendingZigbeeMessageMask;
\* a delta of these fields only is not emitted.
C27_NoNoiseChanges ==
    \A i \in At("wiserChange") :
        /\ DOMAIN out[i].changes # {}
        /\ DOMAIN out[i].changes \cap Noise = {}

\* C27, its case: a tick whose snapshot differs from the stored one in the
\* Mode of a room and in the ReceptionOfDevice of a device has emitted a
\* change.
C27_Witness ==
    /\ last.op = "tick"
    /\ last.ok
    /\ <<"Device", 1, "ReceptionOfDevice">> \in FieldDifferences(last.base, prev)
    /\ <<"Room", 1, "Mode">> \in FieldDifferences(last.base, prev)
    /\ At("wiserChange") # {}

\* C28: a tick whose snapshot, after UnixTime and LocalDateAndTime are
\* stripped, equals the stored previous snapshot emits no wiserChange.
C28_EqualNoChange ==
    (last.op = "tick" /\ last.ok /\ last.base = prev) => At("wiserChange") = {}

\* C28, its case: a tick has fetched a snapshot equal to the stored one and
\* has pinged.
C28_Witness ==
    /\ last.op = "tick"
    /\ last.ok
    /\ last.base = prev
    /\ "Room" \in DOMAIN prev
    /\ At("wiserPing") # {}

C30_LookupsNeverRaise ==
    /\ last.op = "getRoom" =>
          /\ ~last.threw
          /\ (saved = NoValue \/ \A i \in DOMAIN saved.Room : saved.Room[i].id # last.id)
                => last.value = JsNull
    /\ last.op = "getRoomByName" =>
          /\ ~last.threw
          /\ (saved = NoValue \/ \A i \in DOMAIN saved.Room : saved.Room[i].Name # last.name)
                => last.value = JsNull

\* C31: with a snapshot stored, getRoom(id) and getRoomByName(name) return the
\* first room, in the order of that snapshot, whose id (Name) equals the
\* argument, also when several rooms match, and null when none does.  The
\* result is a function of the snapshot and the argument, so two calls with
\* the same argument and no replacement of the snapshot in between return
\* the same.
C31_FirstMatch ==
    /\ (last.op = "getRoom" /\ saved # NoValue) =>
          LET hits == {i \in DOMAIN saved.Room : saved.Room[i].id = last.id}
          IN  /\ ~last.threw
              /\ IF hits = {} THEN last.value = JsNull
                  ELSE \E i \in hits : (\A j \in hits : i <= j) /\ last.value = saved.Room[i]
    /\ (last.op = "getRoomByName" /\ saved # NoValue) =>
          LET hits == {i \in DOMAIN saved.Room : saved.Room[i].Name = last.name}
          IN  /\ ~last.threw
              /\ IF hits = {} THEN last.value = JsNull
                  ELSE \E i \in hits : (\A j \in hits : i <= j) /\ last.value = saved.Room[i]

\* C31, its case: getRoomByName('Office') with two rooms of that Name stored
\* has returned the first of them, the room of id 8.
C31_Witness ==
    /\ last.op = "getRoomByName"
    /\ last.name = "Office"
    /\ saved # NoValue
    /\ Cardinality({i \in DOMAIN saved.Room : saved.Room[i].Name = "Office"}) = 2
    /\ last.value = saved.Room[1]
    /\ last.value.id = 8

\* C32: setConfig with a missing (or empty) ip or secret throws, and leaves
\* the whole configuration as it was: base URL, secret header, interval,
\* maxBoost, folder, boostCancelTime.
C32_ConfigError ==
    [][(/\ last'.op = "setConfig"
        /\ \/ last'.ip \in {<<>>, <<"">>}
           \/ last'.secret \in {<<>>, <<"">>}) =>
          /\ last'.threw
          /\ settings' = settings
          /\ axiosConfig' = axiosConfig]_vars

\* C32, its case: a setConfig without secret has thrown after an earlier one
\* had configured the client and changed settings.
C32_Witness ==
    /\ last.op = "setConfig"
    /\ last.threw
    /\ last.secret = <<>>
    /\ last.ip = <<"10.0.0.2">>
    /\ axiosConfig.baseURL # <<>>
    /\ settings.interval = 30

\* C33: the configured maxBoost.  It is 20 until setConfig or setMaxBoost
\* changes it, and never above 30: a finite value above 30 is stored as 30,
\* and a value that is no finite number leaves it as it was.
C33_MaxBoostCap ==
    /\ settings.maxBoost = 200
    /\ [][/\ settings'.maxBoost <= 300
          /\ last'.op \notin {"setMaxBoost", "setConfig"} =>
                settings'.maxBoost = settings.maxBoost
          /\ (last'.op = "setMaxBoost" \/ (last'.op = "setConfig" /\ ~last'.threw)) =>
                LET arg == last'.maxBoost
                IN  /\ (arg # <<>> /\ arg[1].t = "finite" /\ arg[1].n > 300) =>
                          settings'.maxBoost = 300
                    /\ (arg # <<>> /\ arg[1].t # "finite") =>
                          settings'.maxBoost = settings.maxBoost]_vars

\* C33, its case: setConfig with maxBoost 35 has stored 30.
C33_Witness ==
    /\ last.op = "setConfig"
    /\ ~last.threw
    /\ last.maxBoost = <<Finite(350)>>
    /\ settings.maxBoost = 300

\* C34: get(service) with a name that is none of the service paths is
\* rejected over the name and issues no request; get before ip and secret are
\* configured is rejected and issues no request.
C34_GetRejects ==
    last.op = "get" =>
        /\ last.service \notin DOMAIN servicePaths =>
              /\ last.st = "rejected"
              /\ last.kind = "InvalidService"
              /\ \A f \in inflight : f.kind # "get"
        /\ (axiosConfig.baseURL = <<>> \/ axiosConfig.SECRET = <<>>) =>
              /\ last.st = "rejected"
              /\ \A f \in inflight : f.kind # "get"

\* C34, its case: get('wifiRSSI') on a client that was never configured has
\* been rejected.
C34_Witness ==
    /\ last.op = "get"
    /\ last.service = "wifiRSSI"
    /\ axiosConfig.baseURL = <<>>
    /\ last.st = "rejected"
    /\ last.kind = "NotConfigured"

\* C35: for every mode but boost, whatever the order in which the controller
\* applies the writes of a call that succeeded, the write applied last is the
\* primary one (the last one issued), so the override cancellation never
\* undoes it.
C35_PrimaryAppliedLast ==
    (/\ call.st = "resolved"
     /\ call.op = "setRoomMode"
     /\ toLowerCase(call.mode.v) # "boost") =>
        /\ Len(applied) = Len(patches)
        /\ applied[Len(applied)] = Len(patches)

\* Did the controller's room go from Mode a to Mode b, at once or in steps?
Moved(a, b) == \E v, w \in 0..ctrl : v < w /\ a = ModeOf(v) /\ b = ModeOf(w)

\* C36: no wiserChange reports a step back: the snapshot that supplies the
\* changes values of a tick was fetched later than the snapshot that supplies
\* its prev values, also when responses are processed out of issue order; so
\* a reported change of Mode is one the controller's room has made.
C36_NoStepBack ==
    last.op = "tick" =>
        \A i \in At("wiserChange") :
            (out[i].type = "Room" /\ "Mode" \in DOMAIN out[i].changes) =>
                \/ last.baseAt < last.at
                \/ Moved(out[i].prev.Mode, out[i].changes.Mode)

\* C37: whatever maxBoost was configured, unless boostTemp is -20 the
\* temperature that modes set and boost write lies between 5 degrees and
\* maxBoost: the SetPoint is never below 50.
C37_SetPointInRange ==
    (/\ JustFetched
     /\ call.st = "sending"
     /\ toLowerCase(call.mode.v) \in {"set", "boost"}
     /\ call.boostTemp # DegC(-20)) =>
        /\ Payloads[Len(patches)].RequestOverride.SetPoint >= toWiserTemp(DegC(5))
        /\ Payloads[Len(patches)].RequestOverride.SetPoint <= toWiserTemp(settings.maxBoost)

\* C38: the prev values of every wiserChange were read from the entity of the
\* previous snapshot that has the id the notification gives, also when an
\* entity was added or removed between the two snapshots.
C38_PrevOfSameEntity ==
    (last.op = "tick" /\ last.ok) =>
        \A i \in At("wiserChange") :
            /\ out[i].idx + 1 \in DOMAIN last.base[out[i].type]
            /\ last.base[out[i].type][out[i].idx + 1].id = out[i].id

\* Is this step the continuation, on the response resp, of a getFull that
\* no monitor made: the caller's own or that of setRoomMode?
GetFullStep(f, resp) == GetFullDone(f, resp) \/ RoomModeFetched(f, resp)

\* C39: a getFull made by the caller or by setRoomMode changes nothing but
\* saved and roomMap: not the monitors' previous snapshot, not the monitor
\* registry or its timers, not the settings.  When the fetch succeeds saved
\* becomes the response and roomMap the map built from it, in one step; when
\* it fails both stay as they were.
C39_GetFullFrame ==
    [][\A f \in inflight : \A resp \in HouseResponses(f) :
          GetFullStep(f, resp) =>
              /\ UNCHANGED <<prev, wiserMonitorRefs, timers, mref, settings, axiosConfig>>
              /\ resp = ErrorResult => UNCHANGED <<saved, roomMap>>
              /\ resp # ErrorResult => saved' = resp /\ roomMap' = doRoomMap(resp)]_vars

\* C39, its case: a getFull of the caller or of setRoomMode has stored a
\* snapshot with a room less and a map with a device less than the running
\* monitor's previous snapshot has, which the monitor has yet to report.
C39_Witness ==
    /\ last.op \in {"getFullDone", "roomModeFetched"}
    /\ At("wiserFullUpdate") # {}
    /\ timers # {}
    /\ prev # NoValue
    /\ Len(saved.Room) < Len(prev.Room)
    /\ roomMap = doRoomMap(saved)
    /\ roomMap # doRoomMap(prev)

====
